---- MODULE Spec2Model ----
(***************************************************************************)
(* Session orchestration of the pay-to-roll dice game (src/src/App.jsx).   *)
(*                                                                         *)
(* The React component is modelled as a state machine.  Its useState cells *)
(* and the rollingRef are variables; every event-loop task (a click, a     *)
(* timer, the continuation of an awaited request) is one action.  State    *)
(* updates made in one task are batched into one render (React 18), and    *)
(* the effects of that render run with it, so an action also contains the  *)
(* effects its assignments trigger.  Time is abstracted: a timer may fire  *)
(* and a response may arrive at any moment.                                 *)
(*                                                                         *)
(* The LNbits backend is the environment: the balance a wallet query       *)
(* reports and the paid flag a status query reports are inputs of the      *)
(* step that receives the answer; a withdraw link becomes used at any      *)
(* moment.                                                                 *)
(*                                                                         *)
(* Spec is the game; LiveSpec adds the fairness of the event loop for the  *)
(* properties that say something eventually happens; PotSpec follows the   *)
(* wallet queries of fetchPotFromWallet one by one.                        *)
(***************************************************************************)
EXTENDS Integers, Sequences, FiniteSets

\* ---------------------------------------------------------------- bounds
MaxInvoices == 2    \* invoices the backend issues in one run
MaxGuess == 2       \* the player clicks the buttons 1..MaxGuess
MaxFetches == 1     \* free-standing pot fetches in flight at once
MaxLinks == 1       \* withdraw links the backend creates in one run
MaxTicks == 2       \* payout poll callbacks in flight at once, per link
MaxQueries == 3     \* wallet queries followed one by one (PotSpec)

\* ------------------------------------------------------ program constants
FEE_BUFFER_SATS == 10
MAX_PAYMENT_ATTEMPTS == 5
INITIAL_BACKOFF_MS == 3000
BACKOFF_CAP_MS == 30000
MSAT_PER_SAT == 1000
Null == 0

Faces == 1..6                   \* Math.floor(Math.random() * 6) + 1
Buttons == 1..6                 \* the number buttons
Clicks == {n \in Buttons : n <= MaxGuess}
Balances == {10999, 11000}      \* wallet balances (msat) the backend reports

\* error messages
NoError == "null"
ErrPot == "Unable to fetch pot balance. Please try again later."
ErrInvoice == "Failed to create payment invoice. Please try again."
ErrPotTooLow == "Pot too low to cover withdrawal fee."
ErrWithdraw == "Unable to create withdrawal link. Please try again later."
ErrTimeout == "Payment is taking longer than expected. Please check your wallet."
ErrPayment == "Error checking payment status. Please refresh."
ErrPayout == "Error checking withdrawal. Please try again later."

\* result cell: null, the win message, or the loss message with the face
NoResult == [kind |-> "null", face |-> 0]
Won == [kind |-> "won", face |-> 0]
Wrong(d) == [kind |-> "wrong", face |-> d]

VARIABLES
    guess, invoice, paymentHash, paid, pot, result, rolling,
    lnurl, withdrawId, awaitingPayout, errorMessage,   \* useState cells
    rollingRef,        \* useRef
    pendingInvoices,   \* createInvoice requests awaiting their response
    chains,            \* checkPayment closures, one per payment hash
    potFetches,        \* fetchPotFromWallet calls of the effect and the timer in flight
    tickGet, tickFetch,\* payout poll callbacks awaiting the link / the pot
    links,             \* backend: the withdraw links created
    draws,             \* history: draws since the last guess selection or reset
    abandoned,         \* history: hashes whose session has been reset
    wallet,            \* backend: the balance of the wallet (msat)
    queries            \* the wallet queries of fetchPotFromWallet, in the
                       \* order they were issued (see PotSpec)

session == <<guess, invoice, paymentHash, paid, result, rolling,
             lnurl, withdrawId, awaitingPayout, errorMessage>>
vars == <<guess, invoice, paymentHash, paid, pot, result, rolling, lnurl,
          withdrawId, awaitingPayout, errorMessage, rollingRef,
          pendingInvoices, chains, potFetches, tickGet, tickFetch,
          links, draws, abandoned, wallet, queries>>

\* the wallet and the queries followed one by one; Spec abstracts them (the
\* answer of a query is an input of the step that receives it), PotSpec
\* follows them
ledger == <<wallet, queries>>

Hashes == 1..MaxInvoices
LinkIds == 1..MaxLinks

\* A checkPayment call and the rollDice call it makes: pc is the position
\* ("poll": a status request is in flight, "wait": its timer is scheduled),
\* the other fields are the variables of the two closures (guess is the guess
\* the rollDice of that render closed over).  A closure that has returned
\* holds nothing: its fields are cleared.
NoChain == [pc |-> "none", guess |-> Null, attempts |-> 0, delays |-> <<>>,
            diceRoll |-> 0, withdrawable |-> 0]

Finished(pc) == [NoChain EXCEPT !.pc = pc]

Issued == {k \in Hashes : chains[k].pc # "none"}

Min(a, b) == IF a <= b THEN a ELSE b

RECURSIVE Pow2(_)
Pow2(n) == IF n <= 0 THEN 1 ELSE 2 * Pow2(n - 1)

Init ==
    /\ guess = Null /\ invoice = Null /\ paymentHash = Null
    /\ paid = FALSE /\ pot = 0 /\ result = NoResult /\ rolling = FALSE
    /\ lnurl = Null /\ withdrawId = Null /\ awaitingPayout = FALSE
    /\ errorMessage = NoError
    /\ rollingRef = FALSE
    /\ pendingInvoices = 0
    /\ chains = [k \in Hashes |-> NoChain]
    /\ potFetches = 1             \* the effect's fetch on mount
    /\ tickGet = [w \in LinkIds |-> 0]
    /\ tickFetch = [w \in LinkIds |-> 0]
    /\ links = <<>>
    /\ draws = 0
    /\ abandoned = {}
    /\ wallet = 11000
    /\ queries = <<>>

\* ------------------------------------------------- fetchPotFromWallet
\* Math.floor(res.data.balance / 1000)
PotRead(balance) == balance \div MSAT_PER_SAT

\* (variant: the catch block stores the value it returns)
PotAfterFetch_ZeroOnFailure(ok, balance) == IF ok THEN PotRead(balance) ELSE 0

\* the stored pot after the call: setPot(sats) on success, untouched on failure
PotAfterFetch(ok, balance) == IF ok THEN PotRead(balance) ELSE pot

\* (variant: the caller works from the stored pot instead)
FetchReturns_Cached(ok, balance) == pot

\* the value the call resolves to
FetchReturns(ok, balance) == IF ok THEN PotRead(balance) ELSE 0

\* ------------------------------------------------------------ effects
\* "Trigger payment check and initial pot fetch": its dependencies are
\* invoice, paymentHash and checkPayment, and checkPayment is rebuilt when
\* paymentHash or rollDice (that is, guess) changes.
EffectRuns ==
    invoice' # invoice \/ paymentHash' # paymentHash \/ guess' # guess

\* the fetchPotFromWallet() call of that effect
EffectFetch ==
    /\ potFetches' = IF EffectRuns THEN potFetches + 1 ELSE potFetches
    /\ potFetches' <= MaxFetches

\* "Poll withdrawal status": the interval exists exactly while awaitingPayout
\* and withdrawId are set; the cleanup clears it when either changes.
\* (variant: the catch block of the callback stops the interval)
PayoutInterval_StopsOnError ==
    IF awaitingPayout /\ withdrawId # Null /\ errorMessage # ErrPayout
    THEN withdrawId ELSE Null

PayoutInterval ==
    IF awaitingPayout /\ withdrawId # Null THEN withdrawId ELSE Null

\* ------------------------------------------------------ resetGameState
\* (variant: setResult(null) is missing)
ResetGameState_KeepResult ==
    /\ guess' = Null
    /\ invoice' = Null
    /\ paymentHash' = Null
    /\ paid' = FALSE
    /\ result' = result
    /\ rolling' = FALSE
    /\ lnurl' = Null
    /\ withdrawId' = Null
    /\ awaitingPayout' = FALSE
    /\ errorMessage' = NoError

\* (variant: setWithdrawId(null) is missing)
ResetGameState_KeepWithdrawId ==
    /\ guess' = Null
    /\ invoice' = Null
    /\ paymentHash' = Null
    /\ paid' = FALSE
    /\ result' = NoResult
    /\ rolling' = FALSE
    /\ lnurl' = Null
    /\ withdrawId' = withdrawId
    /\ awaitingPayout' = FALSE
    /\ errorMessage' = NoError

ResetGameState ==
    /\ guess' = Null
    /\ invoice' = Null
    /\ paymentHash' = Null
    /\ paid' = FALSE
    /\ result' = NoResult
    /\ rolling' = FALSE
    /\ lnurl' = Null
    /\ withdrawId' = Null
    /\ awaitingPayout' = FALSE
    /\ errorMessage' = NoError

\* history kept at a reset: every poll started so far belongs to a session
\* that is over
ResetHistory ==
    /\ draws' = 0
    /\ abandoned' = Issued

\* ---------------------------------------------------------- handleGuess
\* A number button is rendered while there is no invoice and is disabled
\* while rolling or awaitingPayout.
ButtonsEnabled == invoice = Null /\ ~rolling /\ ~awaitingPayout

HandleGuess(n) ==
    /\ UNCHANGED ledger
    /\ ButtonsEnabled
    /\ pendingInvoices + Cardinality(Issued) < MaxInvoices
    /\ guess' = n
    /\ result' = NoResult
    /\ paid' = FALSE
    /\ lnurl' = Null
    /\ withdrawId' = Null
    /\ awaitingPayout' = FALSE
    /\ errorMessage' = NoError
    /\ pendingInvoices' = pendingInvoices + 1      \* await createInvoice()
    /\ UNCHANGED <<invoice, paymentHash>>
    /\ EffectFetch
    /\ draws' = 0
    /\ UNCHANGED <<pot, rolling, rollingRef, chains, tickGet, tickFetch,
                   links, abandoned>>

\* --------------------------------------------------------- createInvoice
\* The backend answers with a fresh bolt11 and payment hash; the render that
\* follows runs the effect, which calls checkPayment(): the first verify()
\* request goes out with the paymentHash and the rollDice of this render.
InvoiceCreated ==
    /\ UNCHANGED ledger
    /\ pendingInvoices > 0
    /\ Cardinality(Issued) < MaxInvoices
    /\ LET k == Cardinality(Issued) + 1 IN
        /\ invoice' = k
        /\ paymentHash' = k
        /\ chains' = [chains EXCEPT ![k] = [NoChain EXCEPT !.pc = "poll",
                                                            !.guess = guess]]
    /\ pendingInvoices' = pendingInvoices - 1
    /\ UNCHANGED guess
    /\ EffectFetch
    /\ UNCHANGED <<paid, pot, result, rolling, lnurl, withdrawId,
                   awaitingPayout, errorMessage, rollingRef, tickGet,
                   tickFetch, links, draws, abandoned>>

\* (variant: the catch block also forgets the guess)
InvoiceFailed_ClearsGuess ==
    /\ UNCHANGED ledger
    /\ pendingInvoices > 0
    /\ errorMessage' = ErrInvoice
    /\ pendingInvoices' = pendingInvoices - 1
    /\ guess' = Null
    /\ UNCHANGED <<invoice, paymentHash, paid, pot, result, rolling,
                   lnurl, withdrawId, awaitingPayout, rollingRef, chains,
                   potFetches, tickGet, tickFetch, links, draws, abandoned>>

InvoiceFailed ==
    /\ UNCHANGED ledger
    /\ pendingInvoices > 0
    /\ errorMessage' = ErrInvoice
    /\ pendingInvoices' = pendingInvoices - 1
    /\ UNCHANGED <<guess, invoice, paymentHash, paid, pot, result, rolling,
                   lnurl, withdrawId, awaitingPayout, rollingRef, chains,
                   potFetches, tickGet, tickFetch, links, draws, abandoned>>

\* ---------------------------------------------------------- checkPayment
\* `cancelled` is set only by the function checkPayment returns, and the
\* effect that calls checkPayment() drops that function: nothing ever calls it.
Cancelled(k) == FALSE

\* (variant: the guard is missing)
RollGuard_Off == FALSE

\* if (rollingRef.current) return;
RollGuard == rollingRef

\* (variant: > for >=)
AttemptsExhausted_Late(attempts) == attempts > MAX_PAYMENT_ATTEMPTS

\* attempts >= MAX_PAYMENT_ATTEMPTS
AttemptsExhausted(attempts) == attempts >= MAX_PAYMENT_ATTEMPTS

\* (variant: the exponent is attempts)
Backoff_OffByOne(attempts) ==
    Min(INITIAL_BACKOFF_MS * Pow2(attempts), BACKOFF_CAP_MS)

\* Math.min(INITIAL_BACKOFF_MS * 2 ** (attempts - 1), 30000)
Backoff(attempts) ==
    Min(INITIAL_BACKOFF_MS * Pow2(attempts - 1), BACKOFF_CAP_MS)

\* diceRoll === guess
\* (variant: every draw wins)
IsWin_Always(diceRoll, g) == TRUE

IsWin(diceRoll, g) == diceRoll = g

\* verify(): the status request answers paid (the backend may report any
\* issued invoice paid); setPaid(true); rollDice() up to its first await
VerifyPaid(k, d) ==
    /\ UNCHANGED ledger
    /\ chains[k].pc = "poll"
    /\ ~Cancelled(k)
    /\ paid' = TRUE
    /\ IF RollGuard
       THEN /\ chains' = [chains EXCEPT ![k] = Finished("noop")]
            /\ UNCHANGED <<rollingRef, rolling, result, awaitingPayout, draws>>
       ELSE /\ rollingRef' = TRUE
            /\ rolling' = TRUE
            /\ draws' = draws + 1
            /\ IF IsWin(d, chains[k].guess)
               THEN /\ result' = Won
                    /\ awaitingPayout' = TRUE
                    /\ chains' = [chains EXCEPT ![k] =
                            [NoChain EXCEPT !.pc = "winFetch",
                                            !.guess = chains[k].guess,
                                            !.diceRoll = d]]
               ELSE /\ chains' = [chains EXCEPT ![k] =
                            [NoChain EXCEPT !.pc = "loseFetch",
                                            !.guess = chains[k].guess,
                                            !.diceRoll = d]]
                    /\ UNCHANGED <<result, awaitingPayout>>
    /\ UNCHANGED <<guess, invoice, paymentHash, pot, lnurl, withdrawId,
                   errorMessage, pendingInvoices, potFetches, tickGet,
                   tickFetch, links, abandoned>>

\* verify(): the status request answers not paid; unless the attempts are
\* used up, setTimeout(verify, backoff) schedules the next request
VerifyUnpaid(k) ==
    /\ UNCHANGED ledger
    /\ chains[k].pc = "poll"
    /\ ~Cancelled(k)
    /\ LET attempts == chains[k].attempts + 1 IN
        IF AttemptsExhausted(attempts)
        THEN /\ errorMessage' = ErrTimeout
             /\ chains' = [chains EXCEPT ![k].pc = "timedout",
                                         ![k].attempts = attempts]
        ELSE /\ chains' = [chains EXCEPT
                    ![k].pc = "wait",
                    ![k].attempts = attempts,
                    ![k].delays = Append(@, Backoff(attempts))]
             /\ UNCHANGED errorMessage
    /\ UNCHANGED <<guess, invoice, paymentHash, paid, pot, result, rolling,
                   lnurl, withdrawId, awaitingPayout, rollingRef,
                   pendingInvoices, potFetches, tickGet, tickFetch, links,
                   draws, abandoned>>

\* verify(): the status request throws
VerifyFailed(k) ==
    /\ UNCHANGED ledger
    /\ chains[k].pc = "poll"
    /\ errorMessage' = ErrPayment
    /\ chains' = [chains EXCEPT ![k] = Finished("failed")]
    /\ UNCHANGED <<guess, invoice, paymentHash, paid, pot, result, rolling,
                   lnurl, withdrawId, awaitingPayout, rollingRef,
                   pendingInvoices, potFetches, tickGet, tickFetch, links,
                   draws, abandoned>>

\* setTimeout(verify, backoff) fires: the next status request goes out
VerifyTimer(k) ==
    /\ UNCHANGED ledger
    /\ chains[k].pc = "wait"
    /\ chains' = [chains EXCEPT ![k].pc = "poll"]
    /\ UNCHANGED <<session, pot, rollingRef, pendingInvoices, potFetches,
                   tickGet, tickFetch, links, draws, abandoned>>

\* -------------------------------------------------- createLnurlWithdraw
\* (variant: < for <=)
PotTooLow_Strict(withdrawable) == withdrawable < 0

\* if (withdrawable <= 0)
PotTooLow(withdrawable) == withdrawable <= 0

\* (variant: any amount up to withdrawable may be claimed)
WithdrawLink_OpenMin(withdrawable) ==
    [min_withdrawable |-> 0, max_withdrawable |-> withdrawable,
     uses |-> 1, used |-> FALSE]

\* the body of the create-withdraw-link request, as the backend stores it
WithdrawLink(withdrawable) ==
    [min_withdrawable |-> withdrawable, max_withdrawable |-> withdrawable,
     uses |-> 1, used |-> FALSE]

\* ------------------------------------------------- rollDice, continued
\* win path: fetchPotFromWallet() has settled; createLnurlWithdraw(latestPot -
\* FEE_BUFFER_SATS) runs up to its request, or to its early return, after
\* which rollDice finishes
RollWinFetched(k, ok, balance) ==
    /\ UNCHANGED ledger
    /\ chains[k].pc = "winFetch"
    /\ pot' = PotAfterFetch(ok, balance)
    /\ LET withdrawable == FetchReturns(ok, balance) - FEE_BUFFER_SATS IN
        IF PotTooLow(withdrawable)
        THEN /\ errorMessage' = ErrPotTooLow
             /\ rolling' = FALSE
             /\ rollingRef' = FALSE
             /\ chains' = [chains EXCEPT ![k] = Finished("done")]
        ELSE /\ errorMessage' = NoError
             /\ chains' = [chains EXCEPT ![k].pc = "create",
                                         ![k].withdrawable = withdrawable]
             /\ UNCHANGED <<rolling, rollingRef>>
    /\ UNCHANGED <<guess, invoice, paymentHash, paid, result, lnurl,
                   withdrawId, awaitingPayout, pendingInvoices, potFetches,
                   tickGet, tickFetch, links, draws, abandoned>>

\* win path: the backend created the link
WithdrawCreated(k) ==
    /\ UNCHANGED ledger
    /\ chains[k].pc = "create"
    /\ Len(links) < MaxLinks
    /\ links' = Append(links, WithdrawLink(chains[k].withdrawable))
    /\ lnurl' = Len(links) + 1
    /\ withdrawId' = Len(links) + 1
    /\ rolling' = FALSE
    /\ rollingRef' = FALSE
    /\ chains' = [chains EXCEPT ![k] = Finished("done")]
    /\ UNCHANGED <<guess, invoice, paymentHash, paid, pot, result,
                   awaitingPayout, errorMessage, pendingInvoices, potFetches,
                   tickGet, tickFetch, draws,
                   abandoned>>

\* (variant: the error is not caught and rollDice ends before the release)
WithdrawFailed_Throws(k) ==
    /\ UNCHANGED ledger
    /\ chains[k].pc = "create"
    /\ errorMessage' = ErrWithdraw
    /\ chains' = [chains EXCEPT ![k] = Finished("done")]
    /\ UNCHANGED <<guess, invoice, paymentHash, paid, pot, result, lnurl,
                   withdrawId, awaitingPayout, pendingInvoices, potFetches,
                   tickGet, tickFetch, links, draws, abandoned, rolling,
                   rollingRef>>

\* win path: the create-withdraw-link request throws
WithdrawFailed(k) ==
    /\ UNCHANGED ledger
    /\ chains[k].pc = "create"
    /\ errorMessage' = ErrWithdraw
    /\ rolling' = FALSE
    /\ rollingRef' = FALSE
    /\ chains' = [chains EXCEPT ![k] = Finished("done")]
    /\ UNCHANGED <<guess, invoice, paymentHash, paid, pot, result, lnurl,
                   withdrawId, awaitingPayout, pendingInvoices, potFetches,
                   tickGet, tickFetch, links, draws, abandoned>>

\* loss path: fetchPotFromWallet() has settled; the loss message is set
RollLoseFetched(k, ok, balance) ==
    /\ UNCHANGED ledger
    /\ chains[k].pc = "loseFetch"
    /\ pot' = PotAfterFetch(ok, balance)
    /\ errorMessage' = IF ok THEN errorMessage ELSE ErrPot
    /\ result' = Wrong(chains[k].diceRoll)
    /\ rolling' = FALSE
    /\ rollingRef' = FALSE
    /\ chains' = [chains EXCEPT ![k] = Finished("done")]
    /\ UNCHANGED <<guess, invoice, paymentHash, paid, lnurl, withdrawId,
                   awaitingPayout, pendingInvoices, potFetches, tickGet,
                   tickFetch, links, draws, abandoned>>

\* ------------------------------------------------ poll withdrawal status
\* the interval fires: the status request for the link goes out
PayoutTick ==
    /\ UNCHANGED ledger
    /\ PayoutInterval # Null
    /\ tickGet[withdrawId] + tickFetch[withdrawId] < MaxTicks
    /\ tickGet' = [tickGet EXCEPT ![withdrawId] = @ + 1]
    /\ UNCHANGED <<session, pot, rollingRef, pendingInvoices, chains,
                   potFetches, tickFetch, links, draws, abandoned>>

\* the link is not used yet
TickUnused(w) ==
    /\ UNCHANGED ledger
    /\ tickGet[w] > 0
    /\ ~links[w].used
    /\ tickGet' = [tickGet EXCEPT ![w] = @ - 1]
    /\ UNCHANGED <<session, pot, rollingRef, pendingInvoices, chains,
                   potFetches, tickFetch, links, draws, abandoned>>

\* the status request throws
TickFailed(w) ==
    /\ UNCHANGED ledger
    /\ tickGet[w] > 0
    /\ tickGet' = [tickGet EXCEPT ![w] = @ - 1]
    /\ errorMessage' = ErrPayout
    /\ UNCHANGED <<guess, invoice, paymentHash, paid, pot, result, rolling,
                   lnurl, withdrawId, awaitingPayout, rollingRef,
                   pendingInvoices, chains, potFetches, tickFetch, links,
                   draws, abandoned>>

\* the link is used: await fetchPotFromWallet()
TickUsed(w) ==
    /\ UNCHANGED ledger
    /\ tickGet[w] > 0
    /\ links[w].used
    /\ tickGet' = [tickGet EXCEPT ![w] = @ - 1]
    /\ tickFetch' = [tickFetch EXCEPT ![w] = @ + 1]
    /\ UNCHANGED <<session, pot, rollingRef, pendingInvoices, chains,
                   potFetches, links, draws, abandoned>>

\* the pot fetch has settled: resetGameState()
TickFetched(w, ok, balance) ==
    /\ UNCHANGED ledger
    /\ tickFetch[w] > 0
    /\ tickFetch' = [tickFetch EXCEPT ![w] = @ - 1]
    /\ pot' = PotAfterFetch(ok, balance)
    /\ ResetGameState
    /\ EffectFetch
    /\ ResetHistory
    /\ UNCHANGED <<rollingRef, pendingInvoices, chains, tickGet, links>>

\* ------------------------------------------------------ player's resets
\* the Cancel button is rendered while invoice && !paid
CancelShown == invoice # Null /\ ~paid

Cancel ==
    /\ UNCHANGED ledger
    /\ CancelShown
    /\ ResetGameState
    /\ EffectFetch
    /\ ResetHistory
    /\ UNCHANGED <<pot, rollingRef, pendingInvoices, chains, tickGet,
                   tickFetch, links>>

\* the "Try again." button is part of the loss message, rendered while
\* paid && result
TryAgainShown == paid /\ result.kind = "wrong"

TryAgain ==
    /\ UNCHANGED ledger
    /\ TryAgainShown
    /\ ResetGameState
    /\ EffectFetch
    /\ ResetHistory
    /\ UNCHANGED <<pot, rollingRef, pendingInvoices, chains, tickGet,
                   tickFetch, links>>

\* ---------------------------------------------------- regular pot refresh
PotTimer ==
    /\ UNCHANGED ledger
    /\ potFetches < MaxFetches
    /\ potFetches' = potFetches + 1
    /\ UNCHANGED <<session, pot, rollingRef, pendingInvoices, chains,
                   tickGet, tickFetch, links, draws, abandoned>>

\* a fetchPotFromWallet() of the effect or the timer settles
PotFetched(ok, balance) ==
    /\ UNCHANGED ledger
    /\ potFetches > 0
    /\ potFetches' = potFetches - 1
    /\ pot' = PotAfterFetch(ok, balance)
    /\ errorMessage' = IF ok THEN errorMessage ELSE ErrPot
    /\ UNCHANGED <<guess, invoice, paymentHash, paid, result, rolling, lnurl,
                   withdrawId, awaitingPayout, rollingRef, pendingInvoices,
                   chains, tickGet, tickFetch, links, draws, abandoned>>

\* -------------------------------------------------------------- backend
ClaimLink(w) ==
    /\ UNCHANGED ledger
    /\ w \in 1..Len(links)
    /\ ~links[w].used
    /\ links' = [links EXCEPT ![w].used = TRUE]
    /\ UNCHANGED <<session, pot, rollingRef, pendingInvoices, chains,
                   potFetches, tickGet, tickFetch, draws, abandoned>>

\* ------------------------------------------------------------------ Next
Next ==
    \/ \E n \in Clicks : HandleGuess(n)
    \/ InvoiceCreated
    \/ InvoiceFailed
    \/ \E k \in Hashes, d \in Faces : VerifyPaid(k, d)
    \/ \E k \in Hashes : VerifyUnpaid(k)
    \/ \E k \in Hashes : VerifyFailed(k)
    \/ \E k \in Hashes : VerifyTimer(k)
    \/ \E k \in Hashes, ok \in BOOLEAN, b \in Balances : RollWinFetched(k, ok, b)
    \/ \E k \in Hashes : WithdrawCreated(k)
    \/ \E k \in Hashes : WithdrawFailed(k)
    \/ \E k \in Hashes, ok \in BOOLEAN, b \in Balances : RollLoseFetched(k, ok, b)
    \/ PayoutTick
    \/ \E w \in LinkIds : TickUnused(w)
    \/ \E w \in LinkIds : TickFailed(w)
    \/ \E w \in LinkIds : TickUsed(w)
    \/ \E w \in LinkIds, ok \in BOOLEAN, b \in Balances : TickFetched(w, ok, b)
    \/ Cancel
    \/ TryAgain
    \/ PotTimer
    \/ \E ok \in BOOLEAN, b \in Balances : PotFetched(ok, b)
    \/ \E w \in LinkIds : ClaimLink(w)

Spec == Init /\ [][Next]_vars

\* ------------------------------------------- the wallet queries, one by one
\* PotSpec follows the calls of fetchPotFromWallet that the 10 s timer makes
\* while the game is left alone: the request goes out, the backend reads the
\* balance when it serves the request, and the continuation of the call
\* stores what the response carries.  Nothing orders the responses.
game == <<guess, invoice, paymentHash, paid, result, rolling, lnurl,
          withdrawId, awaitingPayout, rollingRef, pendingInvoices, chains,
          potFetches, tickGet, tickFetch, links, draws, abandoned>>

QueryIds == 1..MaxQueries

\* setInterval(fetchPotFromWallet, REFRESH_POT_INTERVAL): axios.get is sent
IssueQuery ==
    /\ Len(queries) < MaxQueries
    /\ queries' = Append(queries, [st |-> "sent", balance |-> 0])
    /\ UNCHANGED <<game, pot, errorMessage, wallet>>

\* a payment comes in or a withdrawal goes out at the backend
WalletChanges(b) ==
    /\ b # wallet
    /\ wallet' = b
    /\ UNCHANGED <<game, pot, errorMessage, queries>>

\* the backend answers query i with the balance it has now
ServeQuery(i) ==
    /\ i \in 1..Len(queries)
    /\ queries[i].st = "sent"
    /\ queries' = [queries EXCEPT ![i] = [st |-> "served", balance |-> wallet]]
    /\ UNCHANGED <<game, pot, errorMessage, wallet>>

\* query i fails (network, backend)
QueryBreaks(i) ==
    /\ i \in 1..Len(queries)
    /\ queries[i].st = "sent"
    /\ queries' = [queries EXCEPT ![i].st = "failed"]
    /\ UNCHANGED <<game, pot, errorMessage, wallet>>

\* the try block continues: setPot(Math.floor(res.data.balance / 1000))
ResponseArrives(i) ==
    /\ i \in 1..Len(queries)
    /\ queries[i].st = "served"
    /\ pot' = PotAfterFetch(TRUE, queries[i].balance)
    /\ queries' = [queries EXCEPT ![i].st = "stored"]
    /\ UNCHANGED <<game, errorMessage, wallet>>

\* the catch block runs
ErrorArrives(i) ==
    /\ i \in 1..Len(queries)
    /\ queries[i].st = "failed"
    /\ pot' = PotAfterFetch(FALSE, 0)
    /\ errorMessage' = ErrPot
    /\ queries' = [queries EXCEPT ![i].st = "lost"]
    /\ UNCHANGED <<game, wallet>>

PotNext ==
    \/ IssueQuery
    \/ \E b \in Balances : WalletChanges(b)
    \/ \E i \in QueryIds : ServeQuery(i)
    \/ \E i \in QueryIds : QueryBreaks(i)
    \/ \E i \in QueryIds : ResponseArrives(i)
    \/ \E i \in QueryIds : ErrorArrives(i)

PotSpec == Init /\ [][PotNext]_vars

\* ---------------------------------------------------------------- fairness
\* The JavaScript event loop runs every task that is ready: an interval that
\* is set fires, and the continuation of an awaited request runs once the
\* request has settled.  Requests are assumed to settle (with an answer or
\* an error); a status query of a used link is assumed not to fail forever.
TickReply ==
    \E w \in LinkIds : TickUnused(w) \/ TickFailed(w) \/ TickUsed(w)

TickSucceeds == \E w \in LinkIds : TickUsed(w)

TickRefreshSettles ==
    \E w \in LinkIds, ok \in BOOLEAN, b \in Balances : TickFetched(w, ok, b)

RollContinues ==
    \/ \E k \in Hashes, ok \in BOOLEAN, b \in Balances :
            RollWinFetched(k, ok, b) \/ RollLoseFetched(k, ok, b)
    \/ \E k \in Hashes : WithdrawCreated(k) \/ WithdrawFailed(k)

PotRefreshSettles == \E ok \in BOOLEAN, b \in Balances : PotFetched(ok, b)

Fairness ==
    /\ WF_vars(PayoutTick)
    /\ WF_vars(TickReply)
    /\ SF_vars(TickSucceeds)
    /\ SF_vars(TickRefreshSettles)
    /\ WF_vars(RollContinues)
    /\ WF_vars(PotRefreshSettles)

LiveSpec == Spec /\ Fairness

\* ================================================================ claims
RollPcs == {"winFetch", "create", "loseFetch"}
RollsInFlight == {k \in Hashes : chains[k].pc \in RollPcs}

\* a step of the poll for hash k, or of the roll it started
Callback(k) == chains'[k] # chains[k]

\* C1: after resetGameState, no later callback of a payment poll started
\* before the reset mutates paid, result, rolling, awaitingPayout, lnurl,
\* withdrawId or errorMessage, and none starts a roll.
C1_CancelledPollIsSilent ==
    [][\A k \in abandoned :
          Callback(k) =>
              /\ UNCHANGED <<paid, result, rolling, awaitingPayout, lnurl,
                             withdrawId, errorMessage>>
              /\ chains'[k].pc \notin RollPcs]_vars

\* C2: while rollingRef.current is true a further rollDice() is a no-op: no
\* draw is executed, no roll is added to the one in flight, and the poll that
\* made the call ends there.
C2_SecondTriggerIsNoOp ==
    /\ [](Cardinality(RollsInFlight) <= 1)
    /\ [](rollingRef <=> RollsInFlight # {})
    /\ [][rollingRef =>
            /\ RollsInFlight' \subseteq RollsInFlight
            /\ draws' <= draws
            /\ \A k \in Hashes :
                  (chains[k].pc = "poll" /\ chains'[k].pc = "noop")
                      => UNCHANGED <<result, rolling, awaitingPayout, pot,
                                     lnurl, withdrawId, links, draws>>]_vars

\* a second confirmation arrived while the first roll was still in flight
C2_Witness ==
    \E k, j \in Hashes : chains[k].pc = "noop" /\ j \in RollsInFlight

\* C3: between a guess selection and the next reset at most one draw is
\* executed.
C3_AtMostOneDraw == draws <= 1

\* C4: a winning roll whose pot reading minus FEE_BUFFER_SATS is <= 0 sends
\* no create-withdraw-link request, creates no link, leaves lnurl and
\* withdrawId as they are and surfaces the pot-too-low error.
C4_PotTooLowSendsNothing ==
    [][\A k \in Hashes, ok \in BOOLEAN, b \in Balances :
          (RollWinFetched(k, ok, b)
              /\ FetchReturns(ok, b) - FEE_BUFFER_SATS <= 0)
          => /\ chains'[k].pc # "create"
             /\ links' = links
             /\ lnurl' = lnurl /\ withdrawId' = withdrawId
             /\ errorMessage' = ErrPotTooLow]_vars

\* a win that ended with the pot too low: no authorization, the error shown
C4_Witness ==
    /\ awaitingPayout /\ result = Won /\ ~rollingRef
    /\ errorMessage = ErrPotTooLow
    /\ lnurl = Null /\ withdrawId = Null /\ links = <<>>

\* C5: awaitingPayout implies that lnurl and withdrawId are set.
C5_AwaitingImpliesAuthorization ==
    awaitingPayout => (lnurl # Null /\ withdrawId # Null)

\* C5, amended: awaitingPayout is set when the win is detected, before the
\* pot is read; an authorization is requested only by a roll on the win
\* path, for the reading its own wallet query returned minus the fee buffer,
\* which is positive; lnurl and withdrawId are set only to the link created
\* for that request.
C5_AuthorizationFromFreshReading ==
    [][\A k \in Hashes :
          /\ (chains[k].pc # "winFetch" /\ chains'[k].pc = "winFetch")
                => (awaitingPayout' /\ lnurl' = lnurl /\ withdrawId' = withdrawId)
          /\ (chains[k].pc # "create" /\ chains'[k].pc = "create")
                => /\ chains[k].pc = "winFetch"
                   /\ chains'[k].withdrawable = pot' - FEE_BUFFER_SATS
                   /\ chains'[k].withdrawable > 0
          /\ (lnurl' # lnurl \/ withdrawId' # withdrawId)
                => \/ lnurl' = Null /\ withdrawId' = Null
                   \/ \E j \in Hashes :
                        /\ chains[j].pc = "create" /\ chains'[j].pc = "done"
                        /\ links' = Append(links, WithdrawLink(chains[j].withdrawable))
                        /\ lnurl' = Len(links') /\ withdrawId' = Len(links')]_vars

\* a win whose authorization has been issued, for a positive amount
C5_Witness ==
    /\ awaitingPayout /\ result = Won
    /\ lnurl # Null /\ withdrawId # Null
    /\ links[withdrawId].min_withdrawable > 0

\* C6: result is set if and only if paid is true.
C6_ResultIffPaid == (result # NoResult) <=> paid

\* C6, amended: result is set only by a roll, and a roll is started only by
\* the payment callback in the step that sets paid; a step that clears paid
\* clears result with it.  (paid may be true with result unset: a losing roll
\* sets result only after its pot refresh.)
C6_ResultOnlyAfterPaid ==
    [][/\ (result' # result /\ result' # NoResult)
            => \E k \in Hashes :
                 \/ chains[k].pc = "poll" /\ chains'[k].pc = "winFetch"
                 \/ chains[k].pc = "loseFetch" /\ chains'[k].pc = "done"
       /\ \A k \in Hashes :
            (chains[k].pc \notin RollPcs /\ chains'[k].pc \in RollPcs)
                => (chains[k].pc = "poll" /\ paid')
       /\ (paid /\ ~paid') => result' = NoResult]_vars

\* a losing roll suspended on the pot refresh: paid, no result yet
C6_Witness ==
    \E k \in Hashes :
        chains[k].pc = "loseFetch" /\ paid /\ result = NoResult /\ invoice = k

\* C7: awaitingPayout implies that the face drawn equals the guess the
\* session holds.
C7_WinMatchesSessionGuess ==
    \A k \in Hashes :
        (awaitingPayout /\ chains[k].pc \in {"winFetch", "create"})
            => chains[k].diceRoll = guess

\* C8: when no status query reports paid and none fails, the poll makes
\* exactly MAX_PAYMENT_ATTEMPTS = 5 queries, then sets the timeout error,
\* changes no other field of the session, and never queries again.
C8_FiveQueriesThenTimeout ==
    /\ [](\A k \in Hashes :
            /\ chains[k].pc \in {"poll", "wait"} => chains[k].attempts < 5
            /\ chains[k].pc = "timedout" => chains[k].attempts = 5)
    /\ [][\A k \in Hashes :
            /\ (chains[k].pc # "timedout" /\ chains'[k].pc = "timedout")
                 => /\ chains[k].pc = "poll" /\ chains[k].attempts = 4
                    /\ errorMessage' = ErrTimeout
                    /\ UNCHANGED <<guess, invoice, paymentHash, paid, result,
                                   rolling, lnurl, withdrawId, awaitingPayout>>
            /\ chains[k].pc = "timedout" => chains'[k] = chains[k]]_vars

\* the poll of the session's invoice has timed out; the session still waits
C8_Witness ==
    \E k \in Hashes :
        /\ chains[k].pc = "timedout" /\ errorMessage = ErrTimeout
        /\ invoice = k /\ paymentHash = k /\ ~paid /\ result = NoResult

\* C9: a poll that times out has waited 3 s, 6 s, 12 s, 24 s and 30 s.
C9_FiveDelays ==
    \A k \in Hashes :
        chains[k].pc = "timedout"
            => chains[k].delays = <<3000, 6000, 12000, 24000, 30000>>

\* C9, amended: a poll that times out has made 5 queries with the four
\* delays 3 s, 6 s, 12 s, 24 s between them (the timeout is surfaced with the
\* fifth answer, without a further delay, and the 30 s cap is never reached);
\* at any moment the delays so far are the first `attempts` of these.
C9_FourDelays ==
    \A k \in Hashes :
        /\ chains[k].pc = "timedout"
             => chains[k].delays = <<3000, 6000, 12000, 24000>>
        /\ chains[k].pc \in {"poll", "wait"}
             => chains[k].delays =
                  SubSeq(<<3000, 6000, 12000, 24000>>, 1, chains[k].attempts)

C9_Witness ==
    \E k \in Hashes : chains[k].pc = "timedout" /\ Len(chains[k].delays) = 4

\* C10: a payout poll that observes the link used first awaits the pot
\* refresh, leaving the session alone, and when the refresh settles resets
\* the session: guess, invoice, paymentHash, lnurl, withdrawId unset, paid
\* and awaitingPayout false, the payout interval cleared.
C10_ClaimedPayoutResets ==
    [][\A w \in LinkIds :
          /\ tickFetch'[w] > tickFetch[w]
                => (links[w].used /\ UNCHANGED <<session, pot>>)
          /\ tickFetch'[w] < tickFetch[w]
                => /\ guess' = Null /\ invoice' = Null /\ paymentHash' = Null
                   /\ lnurl' = Null /\ withdrawId' = Null
                   /\ ~paid' /\ ~awaitingPayout'
                   /\ PayoutInterval' = Null]_vars

\* the only poll there was won, its link was claimed, and the session is idle
\* again: no player action resets a won session
C10_Witness ==
    /\ Cardinality(Issued) = 1
    /\ Len(links) = 1 /\ links[1].used
    /\ guess = Null /\ invoice = Null /\ withdrawId = Null /\ ~awaitingPayout

\* C11: when the wallet query of fetchPotFromWallet fails, the call returns
\* the previous known pot value: the roll that awaited it after a win
\* computes the claimable amount from the pot stored before the query, and
\* asks for a withdraw link of that amount when it is positive.
C11_FailedFetchReturnsPrevious ==
    [][\A k \in Hashes, b \in Balances :
          RollWinFetched(k, FALSE, b) =>
              IF PotTooLow(pot - FEE_BUFFER_SATS)
              THEN chains'[k].pc = "done"
              ELSE /\ chains'[k].pc = "create"
                   /\ chains'[k].withdrawable = pot - FEE_BUFFER_SATS]_vars

\* C12: a failed invoice creation changes nothing but the error message: no
\* invoice, no payment hash, no poll, and the guess stays.  So when the
\* request of a first session fails the state is idle-with-guess with the
\* error visible (guess set, invoice and paymentHash unset, paid false, no
\* poll started) and the number buttons are enabled; a click on one of them
\* sends a new create-invoice request.
FirstInvoiceFailed == Issued = {} /\ errorMessage = ErrInvoice

SessionOpen == invoice # Null \/ paid \/ awaitingPayout

C13_ResetAlwaysOffered ==
    SessionOpen /\ ~rollingRef => CancelShown \/ TryAgainShown

\* C14: once the session has been reset the payout poll of link w is
\* stopped: a callback of that poll whose status request or pot refresh was
\* still in flight at the reset does not change a session started
\* afterwards (a new guess has been selected).
TickCallback(w) == tickGet'[w] < tickGet[w] \/ tickFetch'[w] < tickFetch[w]

C14_StoppedPayoutPollIsSilent ==
    [][\A w \in LinkIds :
          TickCallback(w) /\ PayoutInterval # w /\ guess # Null =>
              UNCHANGED session]_vars

\* C15: the events of one roll are ordered.  A roll starts (the draw is
\* made) only in the step in which its poll saw the invoice paid and set
\* paid; a create-withdraw-link request is sent only by a roll that has made
\* its draw and awaited the wallet query of the win path, and the draw of
\* such a roll equals the guess the roll was started with; a link is created
\* only for such a request.
RollStarts(k) == chains[k].pc \notin RollPcs /\ chains'[k].pc \in RollPcs
RequestSent(k) == chains[k].pc # "create" /\ chains'[k].pc = "create"

RequestBody(k) == WithdrawLink(chains[k].withdrawable)

C16_RequestAmountFromWinReading ==
    /\ [][\A k \in Hashes, ok \in BOOLEAN, b \in Balances :
             RollWinFetched(k, ok, b) /\ chains'[k].pc = "create" =>
                 /\ ok
                 /\ chains'[k].withdrawable = (b \div 1000) - 10]_vars
    /\ [](\A k \in Hashes :
             chains[k].pc = "create" =>
                 /\ RequestBody(k).min_withdrawable = chains[k].withdrawable
                 /\ RequestBody(k).max_withdrawable = chains[k].withdrawable
                 /\ RequestBody(k).min_withdrawable > 0
                 /\ RequestBody(k).uses = 1)
    /\ [](\A w \in 1..Len(links) :
             /\ links[w].min_withdrawable = links[w].max_withdrawable
             /\ links[w].min_withdrawable > 0
             /\ links[w].uses = 1)

\* a request for 11 - 10 = 1 sat is in flight
C16_Witness ==
    \E k \in Hashes : /\ chains[k].pc = "create"
                      /\ pot = 11
                      /\ RequestBody(k).max_withdrawable = 1

\* C17: a failed payout status query does not stop the payout poll: the
\* step that handles the failure leaves awaitingPayout, withdrawId and the
\* interval as they are.  So once the link the session waits for is used,
\* the session returns to Idle (or, when a roll started by a stale poll has
\* replaced the link meanwhile, waits for the newer link).
Idle ==
    /\ guess = Null /\ invoice = Null /\ paymentHash = Null
    /\ ~paid /\ result = NoResult /\ ~rolling
    /\ lnurl = Null /\ withdrawId = Null /\ ~awaitingPayout

WaitsForUsedLink(w) ==
    /\ PayoutInterval = w
    /\ w \in 1..Len(links)
    /\ links[w].used

C17_FailedStatusQueryKeepsPolling ==
    /\ [][\A w \in LinkIds :
             tickGet'[w] < tickGet[w] /\ errorMessage' = ErrPayout =>
                 /\ UNCHANGED <<awaitingPayout, withdrawId>>
                 /\ PayoutInterval' = PayoutInterval]_vars
    /\ \A w \in LinkIds :
          WaitsForUsedLink(w) ~> (Idle \/ withdrawId \notin {Null, w})

\* the session waits for a used link and a status query has just failed
C17_Witness ==
    /\ withdrawId # Null
    /\ WaitsForUsedLink(withdrawId)
    /\ errorMessage = ErrPayout

\* C18: the pot is written only by a successful wallet query of
\* fetchPotFromWallet, to floor(balance / 1000): a step that changes pot is
\* the continuation of such a query (of the timer or the effect, of a roll,
\* or of the payout poll) and stores the reading of a balance; a failed
\* query leaves pot unchanged.
QuerySettles ==
    \/ potFetches' < potFetches
    \/ \E k \in Hashes : /\ chains[k].pc \in {"winFetch", "loseFetch"}
                         /\ chains'[k].pc # chains[k].pc
    \/ \E w \in LinkIds : tickFetch'[w] < tickFetch[w]

FailedQuerySettles(b) ==
    \/ PotFetched(FALSE, b)
    \/ \E k \in Hashes : RollWinFetched(k, FALSE, b)
    \/ \E k \in Hashes : RollLoseFetched(k, FALSE, b)
    \/ \E w \in LinkIds : TickFetched(w, FALSE, b)

C18_PotWrittenOnlyByQuery ==
    /\ [][pot' # pot =>
             /\ QuerySettles
             /\ \E b \in Balances : pot' = b \div 1000]_vars
    /\ [][(\E b \in Balances : FailedQuerySettles(b)) => pot' = pot]_vars

\* a query read 10999 msat, stored 10, and a later query failed
C18_Witness ==
    /\ pot = 10
    /\ errorMessage = ErrPot
    /\ potFetches = 0

\* C19: with several pot refreshes in flight at once the stored pot ends at
\* the reading of the most recently issued successful query: once every
\* query has settled, pot is the reading of the newest query that succeeded,
\* and the response of an older query that arrives after that of a newer one
\* does not change pot.
Stored == {i \in 1..Len(queries) : queries[i].st = "stored"}
Settled == \A i \in 1..Len(queries) : queries[i].st \in {"stored", "lost"}
Newest(S) == CHOOSE i \in S : \A j \in S : j <= i

C19_NewestQueryWins ==
    /\ [](Settled /\ Stored # {} =>
             pot = PotRead(queries[Newest(Stored)].balance))
    /\ [][\A i \in QueryIds :
             ResponseArrives(i) /\ (\E j \in Stored : j > i) =>
                 pot' = pot]_vars

\* C20: every roll that starts finishes and releases the guard, whatever the
\* draw and whether the wallet query or the create-withdraw-link request
\* succeeds or fails: a roll in flight reaches its end, the step that ends
\* it sets rolling and rollingRef.current to false, and the guard is held
\* only while a roll is in flight.
RollEnds(k) == chains[k].pc \in RollPcs /\ chains'[k].pc \notin RollPcs

C20_RollReleasesGuard ==
    /\ \A k \in Hashes : (chains[k].pc \in RollPcs) ~> (chains[k].pc = "done")
    /\ rollingRef ~> ~rollingRef
    /\ [][\A k \in Hashes :
             RollEnds(k) => /\ chains'[k].pc = "done"
                            /\ ~rolling'
                            /\ ~rollingRef']_vars
    /\ []((rolling \/ rollingRef) => RollsInFlight # {})

\* a winning roll has ended on a failed create-withdraw-link request and
\* has released the guard
C20_Witness ==
    /\ \E k \in Hashes : chains[k].pc = "done"
    /\ errorMessage = ErrWithdraw
    /\ awaitingPayout
    /\ ~rolling /\ ~rollingRef
====
